---- MODULE Spec2Model ----
(***************************************************************************)
(* Model of generate.py: the feed pipeline fetch_rss -> parse_feed ->      *)
(* summarise / date parsing -> build_articles (final sort).                *)
(*                                                                         *)
(* Text is a sequence of tokens.  A token is one character ("a", " ", "<", *)
(* ">", ".") or one character reference ("&lt;", "&gt;"), which contains   *)
(* neither '<', '>' nor whitespace and is therefore atomic for the tag     *)
(* regex and for str.split().  A date string is a single token holding the *)
(* literal date text.  Time is counted in hours from 1970-01-01T00:00:00.  *)
(***************************************************************************)
EXTENDS Integers, Sequences, FiniteSets, TLC

VARIABLES pc, tz, feeds, raws, articles, result,
          xml, parsed,
          text, max_words, summary

vars == <<pc, tz, feeds, raws, articles, result, xml, parsed, text, max_words, summary>>

buildVars == <<tz, feeds, raws, articles, result>>
parseVars == <<xml, parsed>>
summVars  == <<text, max_words, summary>>

(***************************************************************************)
(* Bounds of the model.                                                    *)
(***************************************************************************)
\* longest text handed to summarise, in tokens
MaxLen == 5
\* largest max_words handed to summarise
MaxWords == 2
\* most children of the document root, and of a channel
MaxKids == 2
\* most feed URLs in one build_articles call
MaxFeeds == 2
\* most items parsed in one build_articles call, over all feeds
MaxItems == 3

\* summarise's default max_words
DefaultMaxWords == 50

(***************************************************************************)
(* The three state machines below share the variables; each leaves the     *)
(* variables of the other two at these values.                             *)
(***************************************************************************)
IdleBuild ==
    /\ tz = 0
    /\ feeds = <<>>
    /\ raws = <<>>
    /\ articles = <<>>
    /\ result = <<>>

IdleParse ==
    /\ xml = [kind |-> "empty", kids |-> <<>>]
    /\ parsed = <<>>

IdleSumm ==
    /\ text = <<>>
    /\ max_words = DefaultMaxWords
    /\ summary = <<>>

(***************************************************************************)
(* Strings                                                                 *)
(***************************************************************************)
Whitespace == {" "}

RECURSIVE LStrip(_)
LStrip(s) ==
    IF s # <<>> /\ Head(s) \in Whitespace THEN LStrip(Tail(s)) ELSE s

RECURSIVE RStrip(_)
RStrip(s) ==
    IF s # <<>> /\ s[Len(s)] \in Whitespace
    THEN RStrip(SubSeq(s, 1, Len(s) - 1))
    ELSE s

\* str.strip()
Strip(s) == RStrip(LStrip(s))

\* index of the first '>' of s at or after position i, 0 when there is none
RECURSIVE FirstClose(_, _)
FirstClose(s, i) ==
    IF i > Len(s) THEN 0
    ELSE IF s[i] = ">" THEN i
    ELSE FirstClose(s, i + 1)

\* re.sub(r"<[^>]+>", "", s): leftmost non-overlapping matches, scanned from i
RECURSIVE SubTags(_, _)
SubTags(s, i) ==
    IF i > Len(s) THEN <<>>
    ELSE LET j == FirstClose(s, i + 1)
         IN  IF s[i] = "<" /\ j >= i + 2
             THEN SubTags(s, j + 1)
             ELSE <<s[i]>> \o SubTags(s, i + 1)

\* index of the first '<' or '>' of s at or after position i, 0 when there is none
RECURSIVE FirstAngle(_, _)
FirstAngle(s, i) ==
    IF i > Len(s) THEN 0
    ELSE IF s[i] \in {"<", ">"} THEN i
    ELSE FirstAngle(s, i + 1)

\* the substitution with the pattern written <[^<>]+> instead of <[^>]+>
RECURSIVE SubTagsNoNest(_, _)
SubTagsNoNest(s, i) ==
    IF i > Len(s) THEN <<>>
    ELSE LET j == FirstAngle(s, i + 1)
         IN  IF s[i] = "<" /\ j >= i + 2 /\ s[j] = ">"
             THEN SubTagsNoNest(s, j + 1)
             ELSE <<s[i]>> \o SubTagsNoNest(s, i + 1)

StripTagsNoNest(s) == SubTagsNoNest(s, 1)

StripTags(s) == SubTags(s, 1)

\* html.unescape on one token
UnescapeToken(c) ==
    CASE c = "&lt;" -> "<"
      [] c = "&gt;" -> ">"
      [] OTHER -> c

\* html.unescape
Unescape(s) == [i \in 1..Len(s) |-> UnescapeToken(s[i])]

\* str.split(): the maximal runs of non-whitespace, cur is the word being read
RECURSIVE SplitFrom(_, _)
SplitFrom(s, cur) ==
    IF s = <<>> THEN (IF cur = <<>> THEN <<>> ELSE <<cur>>)
    ELSE IF Head(s) \in Whitespace
         THEN (IF cur = <<>> THEN <<>> ELSE <<cur>>) \o SplitFrom(Tail(s), <<>>)
         ELSE SplitFrom(Tail(s), Append(cur, Head(s)))

Split(s) == SplitFrom(s, <<>>)

\* " ".join(words)
RECURSIVE Join(_)
Join(words) ==
    IF words = <<>> THEN <<>>
    ELSE IF Len(words) = 1 THEN words[1]
    ELSE words[1] \o <<" ">> \o Join(Tail(words))

\* the slice s[:n], a negative n counting from the end
PySliceTo(s, n) ==
    IF n >= 0
    THEN SubSeq(s, 1, IF n < Len(s) THEN n ELSE Len(s))
    ELSE SubSeq(s, 1, IF Len(s) + n > 0 THEN Len(s) + n ELSE 0)

Ellipsis == <<".", ".", ".">>

\* summarise with the ellipsis test written >= instead of >
SummariseGe(txt, n) ==
    LET words == Split(Unescape(StripTags(txt)))
    IN  Join(PySliceTo(words, n)) \o (IF Len(words) >= n THEN Ellipsis ELSE <<>>)

summarise(txt, n) ==
    LET clean == Unescape(StripTags(txt))
        words == Split(clean)
    IN  Join(PySliceTo(words, n)) \o (IF Len(words) > n THEN Ellipsis ELSE <<>>)

(***************************************************************************)
(* XML documents as ElementTree sees them.  xml_data is the empty string,  *)
(* a string ET.fromstring rejects, or a document given by the children of  *)
(* its root.  An element has a tag, child elements and, for an item or an  *)
(* entry, the text of its first child of each name; Absent says that there *)
(* is no such child (for href: that the first link has no such attribute). *)
(***************************************************************************)
SeqsUpTo(S, n) == UNION {[1..k -> S] : k \in 0..n}

Absent == <<"#absent">>

EmptyXml == [kind |-> "empty", kids |-> <<>>]
MalformedXml == [kind |-> "malformed", kids |-> <<>>]
Doc(kids) == [kind |-> "doc", kids |-> kids]

Elem(tag, kids, title, link, href, description, content, pubDate, updated) ==
    [tag |-> tag, kids |-> kids, title |-> title, link |-> link, href |-> href,
     description |-> description, content |-> content, pubDate |-> pubDate,
     updated |-> updated]

Channel(kids) ==
    Elem("channel", kids, Absent, Absent, Absent, Absent, Absent, Absent, Absent)

\* Element.find(tag): index of the first child with the tag, 0 for None
RECURSIVE FindFrom(_, _, _)
FindFrom(kids, tag, i) ==
    IF i > Len(kids) THEN 0
    ELSE IF kids[i].tag = tag THEN i
    ELSE FindFrom(kids, tag, i + 1)

Find(kids, tag) == FindFrom(kids, tag, 1)

\* Element.findall(tag): the children with the tag, in document order
FindAll(kids, tag) == SelectSeq(kids, LAMBDA e : e.tag = tag)

\* Element.findtext(name, default=""), e[name] being the first such child
FindText(field) == IF field = Absent THEN <<>> ELSE field

\* the branch written "if channel:", an element without children being falsy
ItemsOfTruthy(kids) ==
    LET c == Find(kids, "channel")
    IN  IF c # 0 /\ kids[c].kids # <<>>
        THEN FindAll(kids[c].kids, "item")
        ELSE FindAll(kids, "entry")

\* lines 61-65: the elements parse_feed reads articles from
ItemsOf(kids) ==
    LET c == Find(kids, "channel")
    IN  IF c # 0
        THEN FindAll(kids[c].kids, "item")
        ELSE FindAll(kids, "entry")

\* the loop body without the href fallback
RawArticleNoHref(item) ==
    LET description == Strip(FindText(item.description))
        pub_date == Strip(FindText(item.pubDate))
    IN  [title |-> Strip(FindText(item.title)),
         link |-> Strip(FindText(item.link)),
         description |-> IF description = <<>>
                         THEN Strip(FindText(item.content)) ELSE description,
         pub_date |-> IF pub_date = <<>>
                      THEN Strip(FindText(item.updated)) ELSE pub_date]

\* lines 68-85: the dictionary yielded for one item
RawArticle(item) ==
    LET link == Strip(FindText(item.link))
        description == Strip(FindText(item.description))
        pub_date == Strip(FindText(item.pubDate))
    IN  [title |-> Strip(FindText(item.title)),
         link |-> IF link = <<>> /\ item.link # Absent
                  THEN Strip(FindText(item.href)) ELSE link,
         description |-> IF description = <<>>
                         THEN Strip(FindText(item.content)) ELSE description,
         pub_date |-> IF pub_date = <<>>
                      THEN Strip(FindText(item.updated)) ELSE pub_date]

\* parse_feed without the except clause: the ParseError leaves the generator
ParseFeedUncaught(x) ==
    IF x.kind = "empty" THEN [raised |-> FALSE, items |-> <<>>]
    ELSE IF x.kind = "malformed" THEN [raised |-> TRUE, items |-> <<>>]
    ELSE LET items == ItemsOf(x.kids)
         IN  [raised |-> FALSE, items |-> [i \in 1..Len(items) |-> RawArticle(items[i])]]

\* parse_feed run to exhaustion: whether an exception leaves it, and what it yields
ParseFeedOutcome(x) ==
    IF x.kind = "empty" THEN [raised |-> FALSE, items |-> <<>>]
    ELSE IF x.kind = "malformed" THEN [raised |-> FALSE, items |-> <<>>]
    ELSE LET items == ItemsOf(x.kids)
         IN  [raised |-> FALSE, items |-> [i \in 1..Len(items) |-> RawArticle(items[i])]]

parse_feed(x) == ParseFeedOutcome(x).items

(***************************************************************************)
(* Dates.  A datetime is naive (wall clock only) or aware (wall clock and  *)
(* UTC offset); NoDate is None.                                            *)
(***************************************************************************)
NoDate == [known |-> FALSE, aware |-> FALSE, wall |-> 0, off |-> 0]
Naive(wall) == [known |-> TRUE, aware |-> FALSE, wall |-> wall, off |-> 0]
Aware(wall, off) == [known |-> TRUE, aware |-> TRUE, wall |-> wall, off |-> off]

\* the date texts of the model, read as strptime reads them: the form of the
\* text, its wall-clock hour and its UTC offset
DateSyntax ==
    [s \in {"Wed, 31 Dec 1969 23:00:00 GMT", "Thu, 01 Jan 1970 01:00:00 GMT",
            "Thu, 01 Jan 1970 02:00:00 +0000", "1970-01-01T02:00:00Z",
            "1970-01-01T02:00:00+00:00", "1970-01-01T02:00:00+01:00"} |->
        CASE s = "Wed, 31 Dec 1969 23:00:00 GMT" -> [form |-> "rfc822_name", wall |-> -1, off |-> 0]
          [] s = "Thu, 01 Jan 1970 01:00:00 GMT" -> [form |-> "rfc822_name", wall |-> 1, off |-> 0]
          [] s = "Thu, 01 Jan 1970 02:00:00 +0000" -> [form |-> "rfc822_num", wall |-> 2, off |-> 0]
          [] s = "1970-01-01T02:00:00Z" -> [form |-> "iso_z", wall |-> 2, off |-> 0]
          [] s = "1970-01-01T02:00:00+00:00" -> [form |-> "iso_off", wall |-> 2, off |-> 0]
          [] s = "1970-01-01T02:00:00+01:00" -> [form |-> "iso_off", wall |-> 2, off |-> 1]]

DateTexts == DOMAIN DateSyntax

Formats == <<"%a, %d %b %Y %H:%M:%S %Z", "%Y-%m-%dT%H:%M:%SZ", "%Y-%m-%dT%H:%M:%S%z">>

\* datetime.strptime(s, fmt): NoDate stands for the ValueError.  %Z takes a
\* zone name and leaves the result naive; %z takes a numeric offset, or Z,
\* and makes it aware.
Strptime(s, fmt) ==
    IF Len(s) # 1 \/ s[1] \notin DateTexts THEN NoDate
    ELSE LET d == DateSyntax[s[1]]
         IN  CASE fmt = Formats[1] ->
                    IF d.form = "rfc822_name" THEN Naive(d.wall) ELSE NoDate
               [] fmt = Formats[2] ->
                    IF d.form = "iso_z" THEN Naive(d.wall) ELSE NoDate
               [] fmt = Formats[3] ->
                    IF d.form \in {"iso_off", "iso_z"} THEN Aware(d.wall, d.off) ELSE NoDate

\* lines 117-128: the first format that parses, None when there is none
RECURSIVE TryFormats(_, _)
TryFormats(s, i) ==
    IF i > Len(Formats) THEN NoDate
    ELSE IF Strptime(s, Formats[i]).known THEN Strptime(s, Formats[i])
    ELSE TryFormats(s, i + 1)

ParseDate(s) == IF s = <<>> THEN NoDate ELSE TryFormats(s, 1)

\* datetime.fromtimestamp(0): the naive local time of the epoch, where the
\* local zone is localOffset hours ahead of UTC
Sentinel(localOffset) == Naive(localOffset)

\* the sort key: a["pub_date"] or datetime.fromtimestamp(0)
SortKey(a, localOffset) == IF a.pub_date.known THEN a.pub_date ELSE Sentinel(localOffset)

\* datetime.__lt__ raises TypeError between a naive and an aware datetime
Incomparable(k1, k2) == k1.aware # k2.aware

\* datetime.__lt__: aware datetimes compare as instants, naive ones as wall clocks
Lt(k1, k2) ==
    IF k1.aware THEN k1.wall - k1.off < k2.wall - k2.off ELSE k1.wall < k2.wall

(***************************************************************************)
(* list.sort(key=..., reverse=True).  CPython reverses the list, sorts it  *)
(* ascending with a stable merge sort and reverses it again.  The stable   *)
(* ascending sort is written as an insertion sort: every comparison sort   *)
(* returns the same list, and meets a naive/aware pair exactly when the    *)
(* list holds both kinds.                                                  *)
(***************************************************************************)
Reverse(l) == [i \in 1..Len(l) |-> l[Len(l) + 1 - i]]

\* where x goes in the sorted list: after the last element not greater than it
RECURSIVE InsertPos(_, _, _, _)
InsertPos(sorted, x, i, localOffset) ==
    IF i = 0 THEN [raised |-> FALSE, pos |-> 0]
    ELSE IF Incomparable(SortKey(x, localOffset), SortKey(sorted[i], localOffset))
         THEN [raised |-> TRUE, pos |-> 0]
    ELSE IF Lt(SortKey(x, localOffset), SortKey(sorted[i], localOffset))
         THEN InsertPos(sorted, x, i - 1, localOffset)
    ELSE [raised |-> FALSE, pos |-> i]

RECURSIVE SortAscending(_, _, _)
SortAscending(sorted, rest, localOffset) ==
    IF rest = <<>> THEN [raised |-> FALSE, list |-> sorted]
    ELSE LET p == InsertPos(sorted, Head(rest), Len(sorted), localOffset)
         IN  IF p.raised THEN [raised |-> TRUE, list |-> <<>>]
             ELSE SortAscending(SubSeq(sorted, 1, p.pos) \o <<Head(rest)>>
                                    \o SubSeq(sorted, p.pos + 1, Len(sorted)),
                                Tail(rest), localOffset)

\* an ascending sort followed by a reversal
ListSortThenReverse(l, localOffset) ==
    LET r == SortAscending(<<>>, l, localOffset)
    IN  [raised |-> r.raised, list |-> Reverse(r.list)]

\* line 136
ListSort(l, localOffset) ==
    LET r == SortAscending(<<>>, Reverse(l), localOffset)
    IN  [raised |-> r.raised, list |-> Reverse(r.list)]

(***************************************************************************)
(* fetch_rss and the loop body of build_articles                           *)
(***************************************************************************)
\* lines 38-44: the body on success, "" on any exception
fetch_rss(net) == IF net.ok THEN net.body ELSE EmptyXml

\* the filter written "if not title and not link"
AcceptedEither(raw) == ~(raw.title = <<>> /\ raw.link = <<>>)

\* line 113: the items that are not skipped
Accepted(raw) == ~(raw.title = <<>> \/ raw.link = <<>>)

\* lines 115-134: the Article appended for an accepted item; enc (the item's
\* position in encounter order) and feed (the position of its URL) are not
\* program state, they record where the Article came from
Article(raw, enc, feed) ==
    [title |-> raw.title,
     link |-> raw.link,
     summary |-> summarise(IF raw.description # <<>> THEN raw.description ELSE raw.title,
                           DefaultMaxWords),
     pub_date |-> ParseDate(raw.pub_date),
     enc |-> enc,
     feed |-> feed]

\* lines 112-134 for the items of one feed, the first of them being item number first
RECURSIVE Contribution(_, _, _)
Contribution(items, first, feed) ==
    IF items = <<>> THEN <<>>
    ELSE (IF Accepted(Head(items)) THEN <<Article(Head(items), first, feed)>> ELSE <<>>)
         \o Contribution(Tail(items), first + 1, feed)

(***************************************************************************)
(* build_articles as a state machine: one step per feed URL, then the sort *)
(***************************************************************************)
\* hours by which the local zone is ahead of UTC
LocalOffsets == {0, 1}

\* an Atom entry: the link is an href attribute, the body content, the date updated
AtomEntry(t, h, c, u) == Elem("entry", <<>>, t, <<>>, h, Absent, c, Absent, u)

RssItem(title, link, href, description, pubDate) ==
    Elem("item", <<>>, title, link, href, description, Absent, pubDate, Absent)

\* items with a title and a link: a pre-epoch RSS date, a naive and an aware
\* ISO date, and a date no format parses (with a link to trim and a
\* description carrying markup)
DatedItems ==
    {RssItem(<<"a">>, <<"l">>, Absent, Absent, <<"Wed, 31 Dec 1969 23:00:00 GMT">>),
     RssItem(<<"a">>, <<"l">>, Absent, Absent, <<"1970-01-01T02:00:00Z">>),
     RssItem(<<"a">>, <<"l">>, Absent, Absent, <<"1970-01-01T02:00:00+00:00">>),
     RssItem(<<"a">>, <<" ", "l">>, Absent, <<"<", "a", ">", "&lt;", "a", "&gt;">>,
             <<"Thu, 01 Jan 1970 02:00:00 +0000">>)}

\* items whose title or link is missing or blank
DeficientItems ==
    {RssItem(<<" ">>, <<"l">>, Absent, Absent, <<"1970-01-01T02:00:00Z">>),
     RssItem(<<"a">>, Absent, Absent, Absent, <<"1970-01-01T02:00:00Z">>)}

BuildItems == DatedItems \cup DeficientItems

\* feeds of one element: an Atom entry with an offset date, an item without
\* pubDate, an item dated one hour after the epoch, an item whose link is
\* blank in its text and in its href
OneItemSources ==
    {[ok |-> TRUE, body |-> Doc(<<e>>)] :
        e \in {AtomEntry(<<"a">>, <<"h">>, <<"c">>, <<"1970-01-01T02:00:00+01:00">>)}}
    \cup {[ok |-> TRUE, body |-> Doc(<<Channel(<<e>>)>>)] :
            e \in {RssItem(<<"a">>, <<"l">>, Absent, Absent, Absent),
                   RssItem(<<"a">>, <<"l">>, Absent, Absent,
                           <<"Thu, 01 Jan 1970 01:00:00 GMT">>),
                   RssItem(<<"a">>, <<" ">>, <<" ">>, Absent, <<"1970-01-01T02:00:00Z">>)}}

\* what the network may answer for a URL whose feed holds these items: with
\* no item a failure or a body that is not XML, else an RSS channel of the
\* items or, in place of a single item, a feed of one element
Sources(items) ==
    IF items = <<>>
    THEN {[ok |-> FALSE, body |-> EmptyXml], [ok |-> TRUE, body |-> MalformedXml]}
    ELSE {[ok |-> TRUE, body |-> Doc(<<Channel(items)>>)]}
         \cup (IF Len(items) = 1 THEN OneItemSources ELSE {})

Init ==
    /\ pc = "loop"
    /\ tz \in LocalOffsets
    /\ feeds = <<>>
    /\ raws = <<>>
    /\ articles = <<>>
    /\ result = <<>>
    /\ IdleParse
    /\ IdleSumm

\* lines 110-134: one pass of the loop over feed_urls
ProcessFeed ==
    /\ pc = "loop"
    /\ Len(feeds) < MaxFeeds
    /\ \E n \in 0..(MaxItems - Len(raws)) : \E items \in [1..n -> BuildItems] :
       \E net \in Sources(items) :
          LET x == fetch_rss(net)
              out == ParseFeedOutcome(x)
              elems == ItemsOf(x.kids)
              feed == Len(feeds) + 1
          IN  /\ feeds' = Append(feeds, net)
              /\ IF out.raised
                 THEN /\ pc' = "parse_error"
                      /\ UNCHANGED <<raws, articles>>
                 ELSE /\ pc' = "loop"
                      /\ raws' = raws \o [i \in 1..Len(out.items) |->
                                            [item |-> out.items[i], elem |-> elems[i],
                                             feed |-> feed]]
                      /\ articles' = articles \o
                                     Contribution(out.items, Len(raws) + 1, feed)
    /\ UNCHANGED <<tz, result, parseVars, summVars>>

\* lines 135-137: the sort and the return, or the TypeError of the sort
SortAndReturn ==
    /\ pc = "loop"
    /\ LET r == ListSort(articles, tz)
       IN  /\ pc' = IF r.raised THEN "sort_error" ELSE "done"
           /\ result' = r.list
    /\ UNCHANGED <<tz, feeds, raws, articles, parseVars, summVars>>

Next == ProcessFeed \/ SortAndReturn

Spec == Init /\ [][Next]_vars

(***************************************************************************)
(* Claims about build_articles                                             *)
(***************************************************************************)
\* the source contributes no document: the fetch failed, or the body is
\* empty or is not XML
Fails(net) == ~net.ok \/ net.body.kind \in {"empty", "malformed"}

FromFeed(l, i) == SelectSeq(l, LAMBDA a : a.feed = i)

\* the Articles without the record of where they came from
Plain(l) ==
    [i \in 1..Len(l) |->
        [title |-> l[i].title, link |-> l[i].link,
         summary |-> l[i].summary, pub_date |-> l[i].pub_date]]

Encs(l) == {l[i].enc : i \in 1..Len(l)}

\* what the loop accumulates for a call with this one source
Alone(net) == Contribution(parse_feed(fetch_rss(net)), 1, 1)

\* C1: a source whose fetch fails or whose document is malformed contributes
\* no Article and raises nothing out of build_articles, and every other source
\* of the call contributes exactly the Articles it contributes alone.
C1_FailureIsolation ==
    /\ pc # "parse_error"
    /\ \A i \in 1..Len(feeds) :
          LET mine == FromFeed(articles, i)
              returned == FromFeed(result, i)
          IN  /\ Fails(feeds[i]) => mine = <<>>
              /\ Plain(mine) = Plain(Alone(feeds[i]))
              /\ pc = "done" =>
                    /\ Encs(returned) = Encs(mine)
                    /\ Len(returned) = Len(mine)

C1_Witness ==
    /\ pc = "done"
    /\ Len(feeds) = 2
    /\ feeds[1].ok
    /\ feeds[1].body.kind = "malformed"
    /\ Len(FromFeed(result, 2)) = 2
    /\ Len(result) = 2

C1_WitnessFetch ==
    /\ pc = "done"
    /\ Len(feeds) = 2
    /\ feeds[1].body.kind = "doc"
    /\ ~feeds[2].ok
    /\ Len(result) = 1

\* C2: whatever mix of offset-aware, offset-naive and unknown dates the
\* accepted articles carry, the final sort completes and build_articles
\* returns instead of raising.
C2_SortNeverRaises == pc # "sort_error"

\* seconds-free instant of a known date: the wall clock less the offset
Timestamp(d) == d.wall - d.off

\* C3: in the result the Articles with a known timestamp are in
\* non-increasing timestamp order and every Article with an unknown
\* timestamp comes after every Article with a known one.
C3_KnownDescendingUnknownLast ==
    pc = "done" =>
        \A i \in 1..Len(result) : \A j \in (i + 1)..Len(result) :
            /\ (result[i].pub_date.known /\ result[j].pub_date.known) =>
                  Timestamp(result[i].pub_date) >= Timestamp(result[j].pub_date)
            /\ ~(~result[i].pub_date.known /\ result[j].pub_date.known)

SameTimestamp(a, b) ==
    \/ ~a.pub_date.known /\ ~b.pub_date.known
    \/ /\ a.pub_date.known /\ b.pub_date.known
       /\ a.pub_date.aware = b.pub_date.aware
       /\ Timestamp(a.pub_date) = Timestamp(b.pub_date)

\* C4: two Articles whose timestamps are equal, or both unknown, are in the
\* result in the order in which they were encountered (feeds in list order,
\* items in document order), although the sort is descending.
C4_StableDescending ==
    pc = "done" =>
        \A i \in 1..Len(result) : \A j \in (i + 1)..Len(result) :
            SameTimestamp(result[i], result[j]) =>
                /\ result[i].enc < result[j].enc
                /\ result[i].feed <= result[j].feed

C4_Witness ==
    /\ pc = "done"
    /\ Len(result) = 3
    /\ result[1].pub_date.known
    /\ result[2].pub_date.known
    /\ Timestamp(result[1].pub_date) > Timestamp(result[2].pub_date)
    /\ SameTimestamp(result[2], result[3])
    /\ result[2].enc = 1
    /\ result[3].enc = 3

C4_WitnessUnknown ==
    /\ pc = "done"
    /\ Len(result) = 3
    /\ result[1].pub_date.known
    /\ ~result[2].pub_date.known
    /\ ~result[3].pub_date.known
    /\ result[2].feed = 1
    /\ result[3].feed = 2

\* the trimmed title and the trimmed link of an element, the link taken from
\* the link text or else from the href attribute
TrimmedTitle(e) == Strip(FindText(e.title))
TrimmedLink(e) ==
    IF Strip(FindText(e.link)) # <<>> THEN Strip(FindText(e.link))
    ELSE Strip(FindText(e.href))

WellTitled(a) ==
    /\ a.title # <<>>
    /\ a.link # <<>>
    /\ a.title = Strip(a.title)
    /\ a.link = Strip(a.link)

\* C5: every Article of the result has a non-empty trimmed title and a
\* non-empty trimmed link, and every RawArticle whose trimmed title or trimmed
\* link is empty is left out, without an error.
C5_FilterCorrect ==
    /\ pc # "parse_error"
    /\ \A i \in 1..Len(articles) : WellTitled(articles[i])
    /\ \A i \in 1..Len(result) : WellTitled(result[i])
    /\ \A k \in 1..Len(raws) :
          (TrimmedTitle(raws[k].elem) = <<>> \/ TrimmedLink(raws[k].elem) = <<>>) =>
              /\ k \notin Encs(articles)
              /\ k \notin Encs(result)

C5_Witness ==
    /\ pc = "done"
    /\ Len(raws) = 3
    /\ TrimmedTitle(raws[1].elem) = <<>>
    /\ raws[2].elem.link = Absent
    /\ TrimmedLink(raws[3].elem) = <<"l">>
    /\ raws[3].elem.link # <<"l">>
    /\ Encs(result) = {3}

\* the items parsed so far that have both a title and a link
AcceptedItems == {k \in 1..Len(raws) : raws[k].item.title # <<>> /\ raws[k].item.link # <<>>}

\* C6: when N parsed items over all feeds have a title and a link,
\* build_articles returns exactly N Articles, one for each of them, whatever
\* the date strings are; nothing is deduplicated.
C6_ReturnsOnePerAcceptedItem ==
    pc \in {"done", "sort_error"} =>
        /\ pc = "done"
        /\ Len(result) = Cardinality(AcceptedItems)
        /\ Encs(result) = AcceptedItems

(***************************************************************************)
(* summarise as a state machine: the inputs are drawn in InitSumm          *)
(***************************************************************************)
Tokens == {"a", " ", "<", ">", "&lt;", "&gt;"}

\* the texts of at most n tokens
Texts(n) == SeqsUpTo(Tokens, n)

InitSumm ==
    /\ pc = "summ"
    /\ text \in Texts(MaxLen)
    /\ max_words \in -1..MaxWords
    /\ summary = <<>>
    /\ IdleBuild
    /\ IdleParse

Summarise ==
    /\ pc = "summ"
    /\ summary' = summarise(text, max_words)
    /\ pc' = "summ_done"
    /\ UNCHANGED <<text, max_words, buildVars, parseVars>>

NextSumm == Summarise

SpecSumm == InitSumm /\ [][NextSumm]_vars

(***************************************************************************)
(* Claims about summarise                                                  *)
(***************************************************************************)
\* the words of the text after tag removal and entity decoding
CleanWords == Split(Unescape(StripTags(text)))

FirstWords(words, n) == [i \in 1..n |-> words[i]]

NoSpaceAtEdgesOrDoubled(s) ==
    /\ s # <<>> => s[1] # " " /\ s[Len(s)] # " "
    /\ \A i \in 1..(Len(s) - 1) : ~(s[i] = " " /\ s[i + 1] = " ")

SummaryAsClaimed ==
    /\ Len(CleanWords) <= max_words =>
          /\ summary = Join(CleanWords)
          /\ NoSpaceAtEdgesOrDoubled(summary)
    /\ Len(CleanWords) > max_words =>
          LET kept == IF max_words > 0 THEN FirstWords(CleanWords, max_words) ELSE <<>>
          IN  /\ summary = Join(kept) \o Ellipsis
              /\ Split(summary) = IF kept = <<>> THEN <<Ellipsis>>
                                  ELSE SubSeq(kept, 1, Len(kept) - 1)
                                       \o <<kept[Len(kept)] \o Ellipsis>>
    /\ text = <<>> => summary = <<>>

\* C7 as stated: for every text and every max_words (negative ones included)
\* the summary is the words joined by single spaces when there are at most
\* max_words of them, else the first max_words words with "..." appended to
\* the last word; empty input gives the empty string.
C7_AnyMaxWords == pc = "summ_done" => SummaryAsClaimed

\* C7 amended: the same, for every text and every max_words >= 0.
C7_SummaryBound == (pc = "summ_done" /\ max_words >= 0) => SummaryAsClaimed

C7_Witness ==
    /\ pc = "summ_done"
    /\ max_words = 2
    /\ Len(CleanWords) = 3
    /\ text # Unescape(StripTags(text))
    /\ summary = <<"a", " ", "a", ".", ".", ".">>

\* some '<', then one or more characters other than '>', then '>'
HasTagSpan(s) ==
    \E i \in 1..Len(s) : \E j \in (i + 2)..Len(s) :
        /\ s[i] = "<"
        /\ s[j] = ">"
        /\ \A k \in (i + 1)..(j - 1) : s[k] # ">"

AngleReferences == {"&lt;", "&gt;"}

HasAngleReference(s) == \E i \in 1..Len(s) : s[i] \in AngleReferences

\* C10 as stated: for every input text, entity-encoded markup included, the
\* summary contains no markup tag span.
C10_NoTagSpanEver == pc = "summ_done" => ~HasTagSpan(summary)

\* C10 amended: for every input text that carries no character reference
\* decoding to '<' or '>', the summary contains no markup tag span.
C10_NoTagSpan ==
    (pc = "summ_done" /\ ~HasAngleReference(text)) => ~HasTagSpan(summary)

C10_Witness ==
    /\ pc = "summ_done"
    /\ ~HasAngleReference(text)
    /\ HasTagSpan(text)
    /\ Len(StripTags(text)) < Len(text)
    /\ \E i \in 1..Len(summary) : summary[i] = "<"

(***************************************************************************)
(* parse_feed as a state machine: the document is drawn in InitParse       *)
(***************************************************************************)
\* items and entries that differ in their titles only
ShapeLeaves ==
    {Elem(tag, <<>>, <<t>>, <<"l">>, Absent, Absent, Absent, Absent, Absent) :
        tag \in {"item", "entry"}, t \in {"a", "b"}}

\* the root's children: items, entries and channels; the first channel holds
\* the given children, every later channel a single item
FillChannels(shape, kids) ==
    [i \in 1..Len(shape) |->
        IF shape[i].tag # "channel" THEN shape[i]
        ELSE IF \A j \in 1..(i - 1) : shape[j].tag # "channel" THEN Channel(kids)
        ELSE Channel(<<Elem("item", <<>>, <<"b">>, <<"l">>, Absent, Absent, Absent,
                            Absent, Absent)>>)]

ShapeDocs(n) ==
    {Doc(FillChannels(shape, kids)) :
        shape \in SeqsUpTo(ShapeLeaves \cup {Channel(<<>>)}, n),
        kids \in SeqsUpTo(ShapeLeaves, n)}

\* one item or entry, with every combination of present, blank and absent fields
FieldLinks ==
    {<<Absent, Absent>>} \cup
    ({<<>>, <<" ">>, <<"l", " ">>} \X {Absent, <<" ">>, <<"h">>})

FieldLeaves(tag) ==
    {Elem(tag, <<>>, t, lk[1], lk[2], d, c, p, u) :
        t \in {Absent, <<" ", "a">>},
        lk \in FieldLinks,
        d \in {Absent, <<" ">>, <<"d">>},
        c \in {Absent, <<"c", " ">>},
        p \in {Absent, <<" ">>, <<"p">>},
        u \in {Absent, <<"u">>}}

FieldDocs ==
    {Doc(<<e>>) : e \in FieldLeaves("entry")} \cup
    {Doc(<<Channel(<<e>>)>>) : e \in FieldLeaves("item")}

AtomEntries ==
    {AtomEntry(t, h, c, u) :
        t \in {<<"a">>, <<" ", "b">>},
        h \in {<<>>, <<"h">>, <<"h", " ">>},
        c \in {<<>>, <<"c">>},
        u \in {<<>>, <<"u">>}}

AtomDocs(n) == {Doc(k) : k \in SeqsUpTo(AtomEntries, n) \ {<<>>}}

\* the RSS item carrying an entry's values as link text, description and pubDate
RssTwinItem(e) ==
    Elem("item", <<>>, e.title, FindText(e.href), Absent,
         e.content, Absent, e.updated, Absent)

RssTwin(x) == Doc(<<Channel([i \in 1..Len(x.kids) |-> RssTwinItem(x.kids[i])])>>)

\* the documents whose root and channels have at most n children
ParseDocs(n) ==
    {EmptyXml, MalformedXml} \cup ShapeDocs(n) \cup FieldDocs \cup AtomDocs(n)
    \cup {RssTwin(x) : x \in AtomDocs(n)}

InitParse ==
    /\ pc = "parse"
    /\ xml \in ParseDocs(MaxKids)
    /\ parsed = <<>>
    /\ IdleBuild
    /\ IdleSumm

\* list(parse_feed(xml))
ParseFeed ==
    /\ pc = "parse"
    /\ LET out == ParseFeedOutcome(xml)
       IN  /\ parsed' = out.items
           /\ pc' = IF out.raised THEN "parse_raised" ELSE "parse_done"
    /\ UNCHANGED <<xml, buildVars, summVars>>

NextParse == ParseFeed

SpecParse == InitParse /\ [][NextParse]_vars

(***************************************************************************)
(* Claims about parse_feed                                                 *)
(***************************************************************************)
IsAtomShape(x) ==
    /\ x.kind = "doc"
    /\ x.kids # <<>>
    /\ \A i \in 1..Len(x.kids) :
          LET e == x.kids[i]
          IN  /\ e.tag = "entry"
              /\ e.link = <<>>
              /\ e.description = Absent
              /\ e.pubDate = Absent

\* the values an Atom-shape document carries, trimmed
CarriedValues(x) ==
    [i \in 1..Len(x.kids) |->
        [title |-> Strip(FindText(x.kids[i].title)),
         link |-> Strip(FindText(x.kids[i].href)),
         description |-> Strip(FindText(x.kids[i].content)),
         pub_date |-> Strip(FindText(x.kids[i].updated))]]

Chain(primary, fallback) ==
    IF Strip(FindText(primary)) # <<>>
    THEN Strip(FindText(primary))
    ELSE Strip(FindText(fallback))

FallbackChains(e, r) ==
    /\ r.link = Chain(e.link, e.href)
    /\ r.description = Chain(e.description, e.content)
    /\ r.pub_date = Chain(e.pubDate, e.updated)

\* C8: an Atom-shape document (entries with href links, content, updated)
\* yields the same RawArticles as the RSS-shape document carrying the same
\* values as link text, description and pubDate; in every fallback chain the
\* primary field wins when it is non-empty (trimmed) and the fallback is used
\* only when the primary is empty.
C8_AtomRssEquivalent ==
    pc = "parse_done" =>
        /\ IsAtomShape(xml) =>
              /\ parsed = CarriedValues(xml)
              /\ parsed = parse_feed(RssTwin(xml))
        /\ xml.kind = "doc" =>
              LET items == ItemsOf(xml.kids)
              IN  /\ Len(parsed) = Len(items)
                  /\ \A i \in 1..Len(items) : FallbackChains(items[i], parsed[i])

C8_Witness ==
    /\ pc = "parse_done"
    /\ IsAtomShape(xml)
    /\ Len(parsed) = 2
    /\ parsed[1].link = <<"h">>
    /\ parsed[1].description = <<"c">>
    /\ parsed[1].pub_date = <<"u">>
    /\ parsed[2].link = <<>>

FirstChannel(kids) ==
    CHOOSE i \in 1..Len(kids) :
        /\ kids[i].tag = "channel"
        /\ \A j \in 1..(i - 1) : kids[j].tag # "channel"

HasChannel(kids) == \E i \in 1..Len(kids) : kids[i].tag = "channel"

\* the elements of kids carrying the tag, in document order
RECURSIVE Tagged(_, _)
Tagged(kids, tag) ==
    IF kids = <<>> THEN <<>>
    ELSE (IF Head(kids).tag = tag THEN <<Head(kids)>> ELSE <<>>)
         \o Tagged(Tail(kids), tag)

\* C9: with a channel under the root the RawArticles come from that channel's
\* item elements only, one per item in document order (none for a channel
\* without items, whatever entries there are); without a channel they come
\* from the root's entry elements only, one per entry in document order.
C9_ShapeDetection ==
    (pc = "parse_done" /\ xml.kind = "doc") =>
        LET from == IF HasChannel(xml.kids)
                    THEN Tagged(xml.kids[FirstChannel(xml.kids)].kids, "item")
                    ELSE Tagged(xml.kids, "entry")
        IN  /\ Len(parsed) = Len(from)
            /\ \A i \in 1..Len(from) :
                  /\ parsed[i].title = Strip(FindText(from[i].title))
                  /\ FallbackChains(from[i], parsed[i])

C9_Witness ==
    /\ pc = "parse_done"
    /\ xml.kind = "doc"
    /\ Len(xml.kids) = 2
    /\ xml.kids[1].tag = "entry"
    /\ xml.kids[2].tag = "channel"
    /\ xml.kids[2].kids = <<>>
    /\ parsed = <<>>

C9_WitnessEntries ==
    /\ pc = "parse_done"
    /\ xml.kind = "doc"
    /\ ~HasChannel(xml.kids)
    /\ Len(parsed) = 2
    /\ parsed[1].title = <<"b">>
    /\ parsed[2].title = <<"a">>

====
